---- MODULE Spec2Model ----
(***************************************************************************)
(* A model of src/subagents.py: a Streamlit chat page that forwards each   *)
(* prompt to a Claude Agent SDK client and records the exchange in         *)
(* st.session_state.messages.                                              *)
(*                                                                         *)
(* The script is run top to bottom once per UI event.  A run that carries  *)
(* a prompt blocks in asyncio.run(process_message(...)); the model splits  *)
(* that run at the awaits of process_message (connect/query, then one step *)
(* per message of client.receive_response()).                              *)
(*                                                                         *)
(* Text is a sequence of tokens; string concatenation is \o.               *)
(***************************************************************************)
EXTENDS Naturals, Sequences, FiniteSets

VARIABLES
    messages,       \* st.session_state.messages: sequence of [role, content]
    model,          \* st.session_state.model
    model_option,   \* value held by the "Select Model" selectbox
    pc,             \* position of the script: "idle" | "connecting" | "receiving"
    prompt,         \* the prompt of the run in progress (<<>> when none)
    options,        \* ClaudeAgentOptions of the client in use (NoOptions when none)
    response_text,  \* process_message's accumulator
    received,       \* history: the messages receive_response() has yielded to this call
    clients,        \* history: ClaudeSDKClient contexts entered and not yet exited
    e,              \* str(e) of the exception bound by the except clause (<<>> when none)
    uncaught,       \* the failure that escaped the last script run ("none" when none)
    last_event,     \* history: the step taken last
    prev_messages,  \* history: messages before the step taken last
    submits,        \* history: prompts submitted since the transcript was last empty
    failures        \* history: of those, how many ended in the except clause

vars == <<messages, model, model_option, pc, prompt, options, response_text,
          received, clients, e, uncaught, last_event, prev_messages, submits,
          failures>>

----------------------------------------------------------------------------
(* Bounds of the model. *)

MaxTurns == 2

MaxEvents == 2

MaxAssembleEvents == 2

MaxBlocks == 2

(* Inputs. *)

EmptyText == <<>>

Prompts == {<<"hi">>}

ChatInputs == Prompts \cup {EmptyText}

Fragments == {<<"A">>, <<"B">>}

ExceptionTexts == {<<>>, <<"boom">>}

----------------------------------------------------------------------------
(* get_claude_options *)

FileTools == <<"Read", "Write", "Edit", "MultiEdit", "Grep", "Glob">>

PlaywrightTools ==
    << "mcp__Playwright__browser_close",
       "mcp__Playwright__browser_resize",
       "mcp__Playwright__browser_console_messages",
       "mcp__Playwright__browser_handle_dialog",
       "mcp__Playwright__browser_evaluate",
       "mcp__Playwright__browser_file_upload",
       "mcp__Playwright__browser_fill_form",
       "mcp__Playwright__browser_install",
       "mcp__Playwright__browser_press_key",
       "mcp__Playwright__browser_type",
       "mcp__Playwright__browser_navigate",
       "mcp__Playwright__browser_navigate_back",
       "mcp__Playwright__browser_network_requests",
       "mcp__Playwright__browser_take_screenshot",
       "mcp__Playwright__browser_snapshot",
       "mcp__Playwright__browser_click",
       "mcp__Playwright__browser_drag",
       "mcp__Playwright__browser_hover",
       "mcp__Playwright__browser_select_option",
       "mcp__Playwright__browser_tabs",
       "mcp__Playwright__browser_wait_for" >>

AllowedTools ==
    FileTools \o <<"Task", "TodoWrite", "WebSearch", "WebFetch">> \o PlaywrightTools

YoutubeAnalyst ==
    [ description |-> "An expert at analyzing a user's Youtube channel performance. The analyst will produce a markdown report in the /docs directory.",
      prompt |-> "You are an expert at analyzing YouTube data and helping the user understand their performance. You can use the Playwright browser tools to access the user's Youtube Studio. Generate a markdown report in the /docs directory.",
      model |-> "sonnet",
      tools |-> FileTools \o <<"TodoWrite">> \o PlaywrightTools ]

Researcher ==
    [ description |-> "An expert researcher and documentation writer. The agent will perform deep research of a topic and generate a report or documentation in the /docs directory.",
      prompt |-> "You are an expert researcher and report/documentation writer. Use the WebSearch and WebFetch tools to perform research. You can research multiple subtopics/angles to get a holistic understanding of the topic. You can use filesystem tools to track findings and data in the /docs directory. For longer reports, you can break the work into multiple tasks or write sections at a time. But the final output should be a single markdown report. The final report **MUST** include a citations section with links to all sources used. Review the full report, identify any areas for improvement in readability, cohorerence, and relevancy, and make any necessary edits before declaring the task complete. Clean up any extraneous files and only leave the final report in the /docs directory when you are done. You are only permitted to use these specific tools: Read, Write, Edit, MultiEdit, Grep, Glob, TodoWrite, WebSearch, WebFetch. All other tools are prohibited.",
      model |-> "sonnet",
      tools |-> FileTools \o <<"TodoWrite", "WebSearch", "WebFetch">> ]

EventsAgent ==
    [ description |-> "You are gathering incoming AI events in bay area. Asking for the input of how many days you want to check, search for sources from https://luma.com/sf, Meetup, eventbrite, startupgrind, Y combinator, 500 startups, Andreessen Horowitz (a16z), Stanford Events, Berkeley Events, LinkedIn Events, Silicon Valley Forum, Galvanize, StrictlyVC, Bay Area Tech Events, cerebralvalley.ai/events , you must include RSVP URL.",
      prompt |-> "You are searching for AI events in the next few days. Ask for how many days in advance. Gather the events, make sure to include short description, location and RSVP URL",
      model |-> "sonnet",
      tools |-> FileTools \o <<"TodoWrite">> \o PlaywrightTools ]

Agents ==
    [ name \in {"youtube-analyst", "researcher", "events_agent"} |->
        CASE name = "youtube-analyst" -> YoutubeAnalyst
          [] name = "researcher" -> Researcher
          [] name = "events_agent" -> EventsAgent ]

McpServers ==
    [ name \in {"Playwright"} |->
        [ command |-> "npx", args |-> <<"-y", "@playwright/mcp@latest">> ] ]

get_claude_options_sonnet(m) ==
    [ model |-> "sonnet",
      permission_mode |-> "acceptEdits",
      setting_sources |-> <<"project">>,
      allowed_tools |-> AllowedTools,
      agents |-> Agents,
      mcp_servers |-> McpServers ]

get_claude_options(m) ==
    [ model |-> m,
      permission_mode |-> "acceptEdits",
      setting_sources |-> <<"project">>,
      allowed_tools |-> AllowedTools,
      agents |-> Agents,
      mcp_servers |-> McpServers ]

NoOptions == [ model |-> "" ]

----------------------------------------------------------------------------
(* The messages of client.receive_response().  A message either has no     *)
(* content attribute ("absent"), a list of content blocks ("list"), a      *)
(* content object with a text attribute ("payload"), or any other content  *)
(* ("opaque", a plain string for instance).  A block has a text attribute  *)
(* (a TextBlock) or none (a tool use, a tool result, a thinking block).    *)

TextBlock(t) == [has_text |-> TRUE, text |-> t]

OtherBlock == [has_text |-> FALSE, text |-> <<>>]

Blocks == {TextBlock(t) : t \in Fragments} \cup {OtherBlock}

BlockLists == UNION {[1..n -> Blocks] : n \in 0..MaxBlocks}

AbsentMessage == [kind |-> "absent", blocks |-> <<>>, text |-> <<>>]

OpaqueMessage == [kind |-> "opaque", blocks |-> <<>>, text |-> <<>>]

ListMessage(bs) == [kind |-> "list", blocks |-> bs, text |-> <<>>]

PayloadMessage(t) == [kind |-> "payload", blocks |-> <<>>, text |-> t]

AllMessages ==
    {AbsentMessage, OpaqueMessage}
        \cup {ListMessage(bs) : bs \in BlockLists}
        \cup {PayloadMessage(t) : t \in Fragments}

SampleMessages ==
    { AbsentMessage,
      ListMessage(<<TextBlock(<<"A">>), OtherBlock>>),
      PayloadMessage(<<"B">>) }

----------------------------------------------------------------------------
(* process_message: the body of the async for loop. *)

AddText_prepend(text, block_text) == block_text \o text

AddText(text, block_text) == text \o block_text

RECURSIVE AppendBlocks(_, _)
AppendBlocks(text, blocks) ==
    IF blocks = <<>> THEN text
    ELSE AppendBlocks(IF Head(blocks).has_text
                         THEN AddText(text, Head(blocks).text)
                         ELSE text,
                      Tail(blocks))

ExtractText(text, message) ==
    IF message.kind # "absent"
    THEN IF message.kind = "list"
            THEN AppendBlocks(text, message.blocks)
            ELSE IF message.kind = "payload"
                    THEN AddText(text, message.text)
                    ELSE text
    ELSE text

----------------------------------------------------------------------------
(* The script. *)

Turn(role, content) == [role |-> role, content |-> content]

SelectboxOptions == <<"sonnet", "opus", "haiku">>

SelectboxIndex == 1

ModelNames_free_text ==
    {SelectboxOptions[i] : i \in DOMAIN SelectboxOptions} \cup {"gpt"}

ModelNames == {SelectboxOptions[i] : i \in DOMAIN SelectboxOptions}

DefaultModel == "sonnet"

Truthy_always(p) == TRUE

Truthy(p) == Len(p) > 0

SidebarModel(current, option) == option

ScriptIdle_unblocked(p) == TRUE

ScriptIdle(p) == p = "idle"

ErrorMsg_bare(str_e) == str_e

ErrorMsg(str_e) == <<"Error: ">> \o str_e

UserAppend_skipped(msgs, p) == msgs

UserAppend(msgs, p) == Append(msgs, Turn("user", p))

AssistantAppend(msgs, response) == Append(msgs, Turn("assistant", response))

ExceptAppend_dropped(msgs, error_msg) == msgs

ExceptAppend_overwrite(msgs, error_msg) ==
    [msgs EXCEPT ![Len(msgs)] = Turn("assistant", error_msg)]

ExceptAppend(msgs, error_msg) == Append(msgs, Turn("assistant", error_msg))

ClearedMessages_kept == messages

ClearedMessages == <<>>

Init ==
    /\ messages = <<>>
    /\ model_option = SelectboxOptions[SelectboxIndex]
    /\ model = SidebarModel(DefaultModel, model_option)
    /\ pc = "idle"
    /\ prompt = <<>>
    /\ options = NoOptions
    /\ response_text = <<>>
    /\ received = <<>>
    /\ clients = 0
    /\ e = <<>>
    /\ uncaught = "none"
    /\ last_event = "init"
    /\ prev_messages = <<>>
    /\ submits = 0
    /\ failures = 0

----------------------------------------------------------------------------
(* The UI events.  Each starts a run of the script: the sidebar assigns    *)
(* the selectbox value to st.session_state.model, then the button and the  *)
(* chat input are looked at.  A step of an event ends where the script     *)
(* run ends, or at the first await of process_message.                     *)

SelectModel(m) ==
    /\ ScriptIdle(pc)
    /\ model_option' = m
    /\ model' = SidebarModel(model, m)
    /\ e' = <<>>
    /\ uncaught' = "none"
    /\ received' = <<>>
    /\ last_event' = "select_model"
    /\ prev_messages' = messages
    /\ UNCHANGED <<messages, pc, prompt, options, response_text, clients,
                   submits, failures>>

ClearChatHistory ==
    /\ ScriptIdle(pc)
    /\ model' = SidebarModel(model, model_option)
    /\ messages' = ClearedMessages
    /\ e' = <<>>
    /\ uncaught' = "none"
    /\ received' = <<>>
    /\ submits' = 0
    /\ failures' = 0
    /\ last_event' = "clear"
    /\ prev_messages' = messages
    /\ UNCHANGED <<model_option, pc, prompt, options, response_text, clients>>

ChatInput(p, limit) ==
    /\ ScriptIdle(pc)
    /\ model' = SidebarModel(model, model_option)
    /\ e' = <<>>
    /\ uncaught' = "none"
    /\ received' = <<>>
    /\ prev_messages' = messages
    /\ IF Truthy(p)
       THEN /\ submits < limit
            /\ messages' = UserAppend(messages, p)
            /\ prompt' = p
            /\ options' = get_claude_options(model')
            /\ clients' = clients + 1
            /\ pc' = "connecting"
            /\ submits' = submits + 1
       ELSE UNCHANGED <<messages, prompt, options, clients, pc, submits>>
    /\ last_event' = IF p = EmptyText THEN "empty_input" ELSE "submit"
    /\ UNCHANGED <<model_option, response_text, failures>>

(* process_message, entered by asyncio.run: the client connects and the    *)
(* prompt is sent, then the response is read one message at a time.        *)

Connect ==
    /\ pc = "connecting"
    /\ pc' = "receiving"
    /\ response_text' = <<>>
    /\ received' = <<>>
    /\ last_event' = "query"
    /\ prev_messages' = messages
    /\ UNCHANGED <<messages, model, model_option, prompt, options, clients, e,
                   uncaught, submits, failures>>

ReceiveMessage(stream, limit) ==
    /\ pc = "receiving"
    /\ Len(received) < limit
    /\ \E message \in stream :
          /\ response_text' = ExtractText(response_text, message)
          /\ received' = Append(received, message)
    /\ last_event' = "message"
    /\ prev_messages' = messages
    /\ UNCHANGED <<messages, model, model_option, pc, prompt, options, clients,
                   e, uncaught, submits, failures>>

Return ==
    /\ pc = "receiving"
    /\ messages' = AssistantAppend(messages, response_text)
    /\ pc' = "idle"
    /\ prompt' = <<>>
    /\ options' = NoOptions
    /\ response_text' = <<>>
    /\ clients' = clients - 1
    /\ last_event' = "response"
    /\ prev_messages' = messages
    /\ UNCHANGED <<model, model_option, received, e, uncaught, submits,
                   failures>>

Raise(str_e) ==
    /\ pc \in {"connecting", "receiving"}
    /\ e' = str_e
    /\ messages' = ExceptAppend(messages, ErrorMsg(str_e))
    /\ uncaught' = "none"
    /\ pc' = "idle"
    /\ prompt' = <<>>
    /\ options' = NoOptions
    /\ response_text' = <<>>
    /\ received' = <<>>
    /\ clients' = clients - 1
    /\ failures' = failures + 1
    /\ last_event' = "error"
    /\ prev_messages' = messages
    /\ UNCHANGED <<model, model_option, submits>>

AgentStep ==
    \/ Connect
    \/ ReceiveMessage(SampleMessages, MaxEvents)
    \/ Return
    \/ \E str_e \in ExceptionTexts : Raise(str_e)

Next ==
    \/ \E m \in ModelNames : SelectModel(m)
    \/ ClearChatHistory
    \/ \E p \in ChatInputs : ChatInput(p, MaxTurns)
    \/ AgentStep

Spec == Init /\ [][Next]_vars

(* asyncio.run drives process_message until it returns or raises. *)
LiveSpec == Spec /\ WF_vars(AgentStep)

(* One exchange at a time, with every shape of message in the response. *)
AssembleNext ==
    \/ ClearChatHistory
    \/ \E p \in ChatInputs : ChatInput(p, 1)
    \/ Connect
    \/ ReceiveMessage(AllMessages, MaxAssembleEvents)
    \/ Return
    \/ \E str_e \in ExceptionTexts : Raise(str_e)

AssembleSpec == Init /\ [][AssembleNext]_vars

----------------------------------------------------------------------------
(* Vocabulary of the properties. *)

IsPrefix(s, t) == Len(s) <= Len(t) /\ SubSeq(t, 1, Len(s)) = s

Last(s) == s[Len(s)]

Role(i) == IF i % 2 = 1 THEN "user" ELSE "assistant"

Alternates == \A i \in DOMAIN messages : messages[i].role = Role(i)

AwaitingResponse == pc # "idle"

(* Every user Turn has its assistant Turn, except the one being answered. *)
TurnsPaired ==
    /\ Alternates
    /\ AwaitingResponse <=> (Len(messages) % 2 = 1)

(* The text-bearing pieces of a response, in arrival order, and their      *)
(* concatenation.                                                          *)
PiecesOf(message) ==
    CASE message.kind = "list" ->
            LET texts == SelectSeq(message.blocks, LAMBDA b : b.has_text)
            IN  [i \in DOMAIN texts |-> texts[i].text]
      [] message.kind = "payload" -> <<message.text>>
      [] OTHER -> <<>>

RECURSIVE Join(_)
Join(pieces) ==
    IF pieces = <<>> THEN <<>>
    ELSE Join(SubSeq(pieces, 1, Len(pieces) - 1)) \o pieces[Len(pieces)]

Concatenation(events) == Join(Join([i \in DOMAIN events |-> PiecesOf(events[i])]))

SupportedModels == {"sonnet", "opus", "haiku"}

----------------------------------------------------------------------------
(* C1: every user Turn appended by a submission is eventually followed by  *)
(* exactly one assistant Turn for it, the response or an error message:    *)
(* the roles of the transcript alternate, a user Turn lacks its assistant  *)
(* Turn only while its request is in progress, and every request in        *)
(* progress ends with its assistant Turn appended right after its user     *)
(* Turn.                                                                   *)
C1_EveryUserTurnAnswered ==
    /\ []TurnsPaired
    /\ \A n \in 1..(2 * MaxTurns) : \A p \in Prompts :
          (AwaitingResponse /\ Len(messages) = n /\ messages[n] = Turn("user", p))
             ~> ( /\ ~AwaitingResponse
                  /\ last_event \in {"response", "error"}
                  /\ Len(messages) = n + 1
                  /\ messages[n] = Turn("user", p)
                  /\ messages[n + 1].role = "assistant" )

(* A failed request and then a successful one, both answered. *)
C1_Witness ==
    /\ last_event = "response"
    /\ Len(messages) = 4
    /\ failures = 1
    /\ messages[2].content = ErrorMsg(<<"boom">>)

(* C2: from an empty transcript, after N submissions that all succeeded    *)
(* the transcript has length 2N and its roles alternate user, assistant,   *)
(* starting with user.                                                     *)
C2_LengthIsTwiceSubmits ==
    (~AwaitingResponse /\ failures = 0)
        => (Len(messages) = 2 * submits /\ Alternates)

C2_Witness ==
    /\ ~AwaitingResponse
    /\ failures = 0
    /\ submits = 2
    /\ Len(messages) = 4

(* C3: when the agent call raises, the failure does not leave the script   *)
(* run: exactly one assistant Turn "Error: " + str(e) is appended, the     *)
(* script is idle again with its client closed, and the next prompt is     *)
(* taken and answered like any other.                                      *)
C3_FailureBecomesTurn ==
    /\ last_event = "error"
          => /\ messages = Append(prev_messages, Turn("assistant", <<"Error: ">> \o e))
             /\ Last(prev_messages).role = "user"
             /\ uncaught = "none"
             /\ ~AwaitingResponse
             /\ clients = 0
             /\ submits < MaxTurns
                  => \A p \in Prompts : ENABLED ChatInput(p, MaxTurns)
    /\ (failures > 0 /\ ~AwaitingResponse) => Len(messages) = 2 * submits
    /\ (failures > 0 /\ last_event = "response")
          => /\ Last(messages).role = "assistant"
             /\ messages = Append(prev_messages, Last(messages))
             /\ Last(prev_messages).role = "user"

(* A request that failed after part of the response had arrived, then a    *)
(* request that succeeded.                                                 *)
C3_Witness ==
    /\ last_event = "response"
    /\ Len(messages) = 4
    /\ messages[2] = Turn("assistant", <<"Error: ", "boom">>)
    /\ messages[4] = Turn("assistant", <<"A", "B">>)

(* C4: the assistant Turn of a response is the concatenation, in arrival   *)
(* order and in block order within a message, of the text of every block   *)
(* that has text and of every text payload; messages without content and   *)
(* blocks without text add nothing.                                        *)
C4_TextIsConcatenation ==
    last_event = "response"
        => messages = Append(prev_messages, Turn("assistant", Concatenation(received)))

C4_Witness ==
    /\ last_event = "response"
    /\ received = << ListMessage(<<TextBlock(<<"A">>), OtherBlock>>),
                     ListMessage(<<TextBlock(<<"B">>), TextBlock(<<"A">>)>>) >>
    /\ Last(messages).content = <<"A", "B", "A">>

(* C5: clearing leaves the transcript empty whatever it held, and the      *)
(* prompt submitted next starts a transcript that begins with its Turn.    *)
C5_ClearEmpties ==
    /\ [](last_event = "clear" => (messages = <<>> /\ ~AwaitingResponse))
    /\ [][(last_event = "clear" /\ last_event' = "submit")
             => messages' = <<Turn("user", prompt')>>]_vars

C5_Witness ==
    /\ last_event = "clear"
    /\ Len(prev_messages) = 4
    /\ messages = <<>>

(* C6: the options of every request carry the model selected last, and     *)
(* are otherwise the same for every request.                               *)
C6_SelectedModelIsPassed ==
    AwaitingResponse
        => /\ options.model = model_option
           /\ options.model = model
           /\ \A m \in SupportedModels :
                 [options EXCEPT !.model = m] = get_claude_options(m)

C6_Witness ==
    /\ pc = "receiving"
    /\ options.model = "haiku"
    /\ Len(messages) = 3

C8_EmptyRejectedWithInvalidInput ==
    last_event = "empty_input"
        => /\ uncaught = "InvalidInput"
           /\ messages = prev_messages
           /\ ~AwaitingResponse
           /\ clients = 0

(* C8, amended: an empty prompt is ignored without any failure: the        *)
(* transcript is unchanged, no Turn is appended and no agent call is made. *)
C8_EmptyIgnored ==
    last_event = "empty_input"
        => /\ uncaught = "none"
           /\ messages = prev_messages
           /\ ~AwaitingResponse
           /\ clients = 0
           /\ options = NoOptions

C8_Witness ==
    /\ last_event = "empty_input"
    /\ Len(messages) = 2

(* C9: at most one request is in progress, and while one is, no submit,    *)
(* clear or model selection is processed: only the steps of the agent call *)
(* happen, and until it ends they leave the transcript, the selection and  *)
(* the request alone.                                                      *)
C9_OneRequestAtATime ==
    /\ [](clients <= 1 /\ (AwaitingResponse <=> clients = 1))
    /\ [][AwaitingResponse
            => /\ last_event' \in {"query", "message", "response", "error"}
               /\ clients' <= clients
               /\ pc' # "idle"
                    => UNCHANGED <<messages, model, model_option, options,
                                   prompt, clients>>]_vars

C9_Witness ==
    /\ pc = "receiving"
    /\ Len(received) = 2
    /\ Len(messages) = 3
    /\ clients = 1

(* C10: but for a clear, the transcript before a step is a prefix of the   *)
(* transcript after it, and a model selection leaves it as it is.          *)
C10_AppendOnly ==
    /\ last_event # "clear" => IsPrefix(prev_messages, messages)
    /\ last_event = "select_model" => messages = prev_messages

C10_Witness ==
    /\ last_event = "error"
    /\ Len(messages) = 4
    /\ model = "opus"

====
